---- MODULE Spec2Model ----
(***************************************************************************)
(* The polls application of mysite/polls: the question store, the choice   *)
(* store, and the views of views.py (IndexView, DetailView, ResultsView,   *)
(* vote) acting on them.  Time is counted in hours.  Primary keys are the  *)
(* positions of the rows in the tables (rows are never deleted).           *)
(***************************************************************************)
EXTENDS Integers, Sequences, FiniteSets

VARIABLES
  now,        \* timezone.now(), in hours
  questions,  \* table polls_question: row q is questions[q]
  choices,    \* table polls_choice: row c is choices[c]
  response,   \* the response of the last request (NoResponse after a non-request step)
  recent,     \* the Question the tests construct, and its was_published_recently()
  reqs,       \* the vote request of each worker
  listing     \* the index request in flight

vars == <<now, questions, choices, response, recent, reqs, listing>>

(***************************************************************************)
(* Bounds of the model.                                                    *)
(***************************************************************************)
MaxQuestions == 2      \* questions created by CreateQuestion
MaxChoices == 2        \* choices created by CreateChoice
MaxVotes == 2          \* valid votes accepted while the counters sum to less
MaxElapsedDays == 2    \* days the clock may advance under SpecLookup
MaxPolls == 6          \* questions created by CreatePoll
MaxOffset == 26        \* hours before/after now of a probed pub_date (SpecRecent)
MaxClockHours == 2     \* hours the clock may advance under SpecRecent
NumWorkers == 2        \* workers serving vote requests concurrently

(***************************************************************************)
(* Program constants.                                                      *)
(***************************************************************************)
HoursPerDay == 24
IndexLimit == 5

timedelta_days(days) == days * HoursPerDay

\* The day offsets of the questions of the prepared store: two in the past (of
\* different age), one in the future.
Days == {-2, -1, 1}

\* The day offsets given to create_question: the past, the future.
CreateDays == {-1, 1}

QuestionIds == 1..Len(questions)
ChoiceIds == 1..Len(choices)

\* question.choice_set: the choices whose foreign key is q
choice_set(q) == {c \in ChoiceIds : choices[c].question = q}

\* The votes cast so far (the counters start at 0).
RECURSIVE SumVotes(_)
SumVotes(S) ==
  IF S = {} THEN 0
  ELSE LET c == CHOOSE x \in S : TRUE IN choices[c].votes + SumVotes(S \ {c})

(***************************************************************************)
(* Responses.                                                              *)
(***************************************************************************)
NoRequest == [question_id |-> 0, post |-> {}]

NoResponse ==
  [view |-> "none", status |-> 0, template |-> "", question |-> 0,
   list |-> <<>>, error_message |-> "", location |-> <<>>, request |-> NoRequest]

render(view, template, q, list, msg, req) ==
  [view |-> view, status |-> 200, template |-> template, question |-> q,
   list |-> list, error_message |-> msg, location |-> <<>>, request |-> req]

HttpResponseServerError(view, req) ==
  [view |-> view, status |-> 500, template |-> "", question |-> 0,
   list |-> <<>>, error_message |-> "", location |-> <<>>, request |-> req]

Http404(view, req) ==
  [view |-> view, status |-> 404, template |-> "", question |-> 0,
   list |-> <<>>, error_message |-> "", location |-> <<>>, request |-> req]

HttpResponseRedirect(view, loc, req) ==
  [view |-> view, status |-> 302, template |-> "", question |-> 0,
   list |-> <<>>, error_message |-> "", location |-> loc, request |-> req]

reverse_results(q) == <<"polls:results", q>>

(***************************************************************************)
(* Administrative operations (the tests' set-up).                          *)
(***************************************************************************)
question_text_for(days) == IF days < 0 THEN "Past question" ELSE "Future question"

create_question(question_text, days) ==
  Append(questions, [question_text |-> question_text,
                     pub_date |-> now + timedelta_days(days)])

choice_set_create(chs, q, choice_text) ==
  Append(chs, [question |-> q, choice_text |-> choice_text, votes |-> 0])

CreateQuestion ==
  /\ Len(questions) < MaxQuestions
  /\ \E days \in CreateDays :
       questions' = create_question(question_text_for(days), days)
  /\ response' = NoResponse
  /\ UNCHANGED <<now, choices, recent, reqs, listing>>

CreateChoice ==
  /\ Len(choices) < MaxChoices
  /\ \E q \in QuestionIds : choices' = choice_set_create(choices, q, "Sure.")
  /\ response' = NoResponse
  /\ UNCHANGED <<now, questions, recent, reqs, listing>>

\* A day passes.
Tick ==
  /\ now + HoursPerDay <= MaxElapsedDays * HoursPerDay
  /\ now' = now + HoursPerDay
  /\ response' = NoResponse
  /\ UNCHANGED <<questions, choices, recent, reqs, listing>>

\* q = create_question(...), optionally q.choice_set.create(...); an hour passes
\* before the next statement of the set-up.
CreatePoll ==
  /\ Len(questions) < MaxPolls
  /\ \E days \in CreateDays, withChoice \in BOOLEAN :
       /\ questions' = create_question(question_text_for(days), days)
       /\ choices' = IF withChoice
                       THEN choice_set_create(choices, Len(questions) + 1, "Sure.")
                       ELSE choices
  /\ now' = now + 1
  /\ response' = NoResponse
  /\ UNCHANGED <<recent, reqs, listing>>

(***************************************************************************)
(* Querysets.                                                              *)
(***************************************************************************)
\* Question.objects.filter(pub_date__lte=timezone.now())
filter_pub_date_lte(t) == {q \in QuestionIds : questions[q].pub_date <= t}

\* .order_by('-pub_date'): every order the database may return (rows with equal
\* pub_date come in any order).
RECURSIVE order_by_pub_date_desc(_)
order_by_pub_date_desc(S) ==
  IF S = {} THEN {<<>>}
  ELSE LET newest == {q \in S : \A r \in S :
                        questions[q].pub_date >= questions[r].pub_date}
       IN UNION {{<<q>> \o rest : rest \in order_by_pub_date_desc(S \ {q})} :
                 q \in newest}

\* [:n]
slice(s, n) == IF Len(s) <= n THEN s ELSE SubSeq(s, 1, n)

\* The check of the choices left out.
has_choices_unchecked(q) == q \in QuestionIds

\* bool(question.choice_set.all())
has_choices(q) == choice_set(q) # {}

\* questions = Question.objects.filter(...).order_by('-pub_date')[:5], given the
\* order the database returned
IndexView_questions(ordered) == slice(ordered, IndexLimit)

\* The detail view over Question.objects.all().
DetailView_all == QuestionIds

DetailView_get_queryset == filter_pub_date_lte(now)

ResultsView_get_queryset == filter_pub_date_lte(now)

\* vote resolving the question among the published ones only.
vote_published_queryset == filter_pub_date_lte(now)

\* get_object_or_404(Question, pk=question_id) of vote
vote_question_queryset == QuestionIds

(***************************************************************************)
(* IndexView.  get_queryset sends one SELECT ... LIMIT 5 for the questions *)
(* and then one SELECT per question for question.choice_set.all(); no      *)
(* transaction spans them, so other requests commit in between.            *)
(***************************************************************************)
NoListing == [pc |-> "idle", ordered |-> <<>>, pos |-> 0, kept |-> <<>>]

\* views.py lines 19-20, evaluated when the comprehension starts iterating
IndexSelect ==
  /\ listing.pc = "idle"
  /\ \E ordered \in order_by_pub_date_desc(filter_pub_date_lte(now)) :
       listing' = [pc |-> "filter", ordered |-> IndexView_questions(ordered),
                   pos |-> 1, kept |-> <<>>]
  /\ UNCHANGED <<now, questions, choices, response, recent, reqs>>

\* views.py line 21, one question of the comprehension
IndexFilter ==
  /\ listing.pc = "filter"
  /\ listing.pos <= Len(listing.ordered)
  /\ LET q == listing.ordered[listing.pos] IN
     listing' = [listing EXCEPT !.pos = @ + 1,
                   !.kept = IF has_choices(q) THEN Append(@, q) ELSE @]
  /\ UNCHANGED <<now, questions, choices, response, recent, reqs>>

\* the comprehension is exhausted: the list goes to the template
IndexRender ==
  /\ listing.pc = "filter"
  /\ listing.pos > Len(listing.ordered)
  /\ response' = render("index", "polls/index.html", 0, listing.kept, "", NoRequest)
  /\ listing' = NoListing
  /\ UNCHANGED <<now, questions, choices, recent, reqs>>

(***************************************************************************)
(* DetailView and ResultsView: one SELECT each.                            *)
(***************************************************************************)
Detail ==
  /\ \E pk \in 1..(Len(questions) + 1) :
       LET req == [question_id |-> pk, post |-> {}] IN
       response' = IF pk \in DetailView_get_queryset
                     THEN render("detail", "polls/detail.html", pk, <<>>, "", req)
                     ELSE Http404("detail", req)
  /\ UNCHANGED <<now, questions, choices, recent, reqs, listing>>

Results ==
  /\ \E pk \in 1..(Len(questions) + 1) :
       LET req == [question_id |-> pk, post |-> {}] IN
       response' = IF pk \in ResultsView_get_queryset
                     THEN render("results", "polls/results.html", pk, <<>>, "", req)
                     ELSE Http404("results", req)
  /\ UNCHANGED <<now, questions, choices, recent, reqs, listing>>

(***************************************************************************)
(* vote.  The choice is loaded by one statement (line 48) and written back *)
(* by another (line 57); no transaction, lock or F() expression joins      *)
(* them, so the requests of other workers commit in between.               *)
(***************************************************************************)
\* The decimal literals of the primary keys in use.
IntLiterals == <<"1", "2", "3", "4", "5">>

\* int(s) succeeds
is_int_literal(s) == \E i \in DOMAIN IntLiterals : IntLiterals[i] = s

\* int(s)
int(s) == CHOOSE i \in DOMAIN IntLiterals : IntLiterals[i] = s

\* request.POST: no 'choice' key, or 'choice' = s for a string s, which may be the
\* literal of a primary key, of no primary key, or no integer literal at all.
PostData ==
  {{}} \cup {{IntLiterals[i]} : i \in 1..(Len(choices) + 1)} \cup {{"abc"}, {""}}

\* p.choice_set.get(pk=request.POST['choice']): the exception raised, or "" and
\* the row found
selected_choice(p, post) ==
  IF post = {} THEN [raised |-> "KeyError", pk |-> 0]
  ELSE LET s == CHOOSE x \in post : TRUE IN
       IF ~is_int_literal(s) THEN [raised |-> "ValueError", pk |-> 0]
       ELSE IF int(s) \notin choice_set(p)
         THEN [raised |-> "Choice.DoesNotExist", pk |-> 0]
         ELSE [raised |-> "", pk |-> int(s)]

\* -= in place of +=.
save_decremented(chs, c, votes) == [chs EXCEPT ![c].votes = votes - 1]

\* A save that rewrites the row from a fresh object.
save_clobbering(chs, c, votes) ==
  [chs EXCEPT ![c] = [question |-> chs[c].question, choice_text |-> "",
                      votes |-> votes + 1]]

\* selected_choice.votes += 1 on the object loaded with `votes`, then save()
save_incremented(chs, c, votes) == [chs EXCEPT ![c].votes = votes + 1]

Idle == [pc |-> "idle", question_id |-> 0, post |-> {}, choice |-> 0,
         votes |-> 0, status |-> 0]

\* A request that got its response; of a redirect, the choice it voted for.
finished(status, c) ==
  [pc |-> "done", question_id |-> 0, post |-> {}, choice |-> c,
   votes |-> 0, status |-> status]

\* The status views.py lines 46-54 end the request with, 0 when they load a choice
vote_load_status(question_id, post) ==
  IF question_id \notin vote_question_queryset THEN 404
  ELSE LET sel == selected_choice(question_id, post) IN
       IF sel.raised \in {"KeyError", "Choice.DoesNotExist"} THEN 200
       ELSE IF sel.raised # "" THEN 500
       ELSE 0

\* The response of vote, by its status.
vote_response(status, req) ==
  IF status = 404 THEN Http404("vote", req)
  ELSE IF status = 500 THEN HttpResponseServerError("vote", req)
  ELSE IF status = 302
    THEN HttpResponseRedirect("vote", reverse_results(req.question_id), req)
    ELSE render("vote", "polls/detail.html", req.question_id, <<>>,
                "You didn't select a choice.", req)

\* views.py lines 46-54: resolve the question and load the selected choice
VoteLoad(w) ==
  /\ reqs[w].pc = "idle"
  /\ \E question_id \in 1..(Len(questions) + 1), post \in PostData :
       LET req == [question_id |-> question_id, post |-> post]
           status == vote_load_status(question_id, post)
           c == selected_choice(question_id, post).pk
       IN IF status # 0
            THEN /\ reqs' = [reqs EXCEPT ![w] = finished(status, 0)]
                 /\ response' = vote_response(status, req)
            ELSE /\ SumVotes(ChoiceIds) < MaxVotes
                 /\ reqs' = [reqs EXCEPT ![w] =
                      [pc |-> "loaded", question_id |-> question_id, post |-> post,
                       choice |-> c, votes |-> choices[c].votes, status |-> 0]]
                 /\ UNCHANGED response
  /\ UNCHANGED <<now, questions, choices, recent, listing>>

\* views.py lines 56-61: increment the loaded object, save it, redirect
VoteSave(w) ==
  /\ reqs[w].pc = "loaded"
  /\ choices' = save_incremented(choices, reqs[w].choice, reqs[w].votes)
  /\ reqs' = [reqs EXCEPT ![w] = finished(302, reqs[w].choice)]
  /\ response' = vote_response(302, [question_id |-> reqs[w].question_id,
                                     post |-> reqs[w].post])
  /\ UNCHANGED <<now, questions, recent, listing>>

\* The worker takes its next request.
NextRequest(w) ==
  /\ reqs[w].pc = "done"
  /\ reqs' = [reqs EXCEPT ![w] = Idle]
  /\ UNCHANGED <<now, questions, choices, response, recent, listing>>

(***************************************************************************)
(* Question.was_published_recently (polls/models.py), as the tests use it. *)
(***************************************************************************)
\* The lower limit alone.
was_published_recently_open(pub_date, t) == pub_date >= t - timedelta_days(1)

was_published_recently(pub_date, t) ==
  t - timedelta_days(1) <= pub_date /\ pub_date <= t

NoProbe == [made |-> FALSE, pub_date |-> 0, called |-> FALSE, at |-> 0, value |-> FALSE]

\* The offsets of the tests (30 days, 1 hour) and every hour around the day's edge.
Deltas == (-MaxOffset..MaxOffset) \cup {timedelta_days(-30), timedelta_days(30)}

\* time = timezone.now() + delta; Question(pub_date=time)
NewQuestion ==
  /\ \E delta \in Deltas :
       recent' = [made |-> TRUE, pub_date |-> now + delta, called |-> FALSE,
                  at |-> 0, value |-> FALSE]
  /\ UNCHANGED <<now, questions, choices, response, reqs, listing>>

WasPublishedRecently ==
  /\ recent.made
  /\ recent' = [recent EXCEPT !.called = TRUE, !.at = now,
                  !.value = was_published_recently(recent.pub_date, now)]
  /\ UNCHANGED <<now, questions, choices, response, reqs, listing>>

\* An hour passes.
TickHour ==
  /\ now < MaxClockHours
  /\ now' = now + 1
  /\ UNCHANGED <<questions, choices, response, recent, reqs, listing>>

(***************************************************************************)
(* Specifications.                                                         *)
(***************************************************************************)
Init ==
  /\ now = 0
  /\ questions = <<>>
  /\ choices = <<>>
  /\ response = NoResponse
  /\ recent = NoProbe
  /\ reqs = [w \in 1..NumWorkers |-> Idle]
  /\ listing = NoListing

\* A store of two questions, the first with two choices, the second with one.
InitStore ==
  /\ now = 0
  /\ \E d1 \in Days, d2 \in Days :
       questions = <<[question_text |-> question_text_for(d1),
                      pub_date |-> timedelta_days(d1)],
                     [question_text |-> question_text_for(d2),
                      pub_date |-> timedelta_days(d2)]>>
  /\ choices = <<[question |-> 1, choice_text |-> "Sure.", votes |-> 0],
                 [question |-> 1, choice_text |-> "Me.", votes |-> 0],
                 [question |-> 2, choice_text |-> "Sure.", votes |-> 0]>>
  /\ response = NoResponse
  /\ recent = NoProbe
  /\ reqs = [w \in 1..NumWorkers |-> Idle]
  /\ listing = NoListing

\* The requests as the server runs them: each worker serves one vote, a listing,
\* detail and results lookups run beside them, statements interleave freely.
Next ==
  \/ \E w \in 1..NumWorkers : VoteLoad(w) \/ VoteSave(w)
  \/ IndexSelect \/ IndexFilter \/ IndexRender
  \/ Detail \/ Results

Spec == InitStore /\ [][Next]_vars

\* No request in flight, every worker ready for its next one.
Quiet == listing.pc = "idle" /\ \A w \in 1..NumWorkers : reqs[w].pc = "idle"

\* Sequential execution: one worker, and every request runs to its response before
\* the next request or administrative operation starts.
NextSeq ==
  \/ Quiet /\ CreateQuestion
  \/ Quiet /\ CreateChoice
  \/ Quiet /\ Detail
  \/ Quiet /\ Results
  \/ Quiet /\ IndexSelect
  \/ Quiet /\ VoteLoad(1)
  \/ IndexFilter \/ IndexRender
  \/ VoteSave(1) \/ NextRequest(1)

SpecSeq == Init /\ [][NextSeq]_vars

\* The listing over larger stores, sequential execution.
NextIndex ==
  \/ Quiet /\ CreatePoll
  \/ Quiet /\ IndexSelect
  \/ IndexFilter \/ IndexRender

SpecIndex == Init /\ [][NextIndex]_vars

\* The listing over larger stores while questions and choices are being added.
NextIndexConc == CreatePoll \/ CreateChoice \/ IndexSelect \/ IndexFilter \/ IndexRender

SpecIndexConc == Init /\ [][NextIndexConc]_vars

\* The lookups while time passes.
NextLookup == CreateQuestion \/ Tick \/ Detail \/ Results

SpecLookup == Init /\ [][NextLookup]_vars

\* was_published_recently on constructed Questions.
NextRecent == NewQuestion \/ WasPublishedRecently \/ TickHour

SpecRecent == Init /\ [][NextRecent]_vars

(***************************************************************************)
(* The properties.                                                         *)
(***************************************************************************)
\* The request names a question and, in decimal, a choice of that question.
ValidVote(req) ==
  /\ req.question_id \in QuestionIds
  /\ \E c \in ChoiceIds :
       choices[c].question = req.question_id /\ IntLiterals[c] \in req.post

\* C1: a vote whose choice identifier resolves to a choice of the target question
\* is not turned away, and when it completes it has added exactly 1 to that
\* choice's counter, left every other choice as it was, and answers with a
\* redirect to the results of the same question.
C1_ValidVoteIncrementsOnce ==
  [][\A w \in DOMAIN reqs :
       /\ (reqs[w].pc = "idle" /\ reqs'[w].pc = "done") =>
            ~ValidVote(response'.request)
       /\ (reqs[w].pc = "loaded" /\ reqs'[w].pc = "done") =>
            /\ response'.status = 302
            /\ response'.location = <<"polls:results", reqs[w].question_id>>
            /\ choices' = [choices EXCEPT ![reqs[w].choice].votes = @ + 1]]_vars

\* C2: once every concurrent vote request has completed, each choice's counter
\* equals the number of valid vote requests completed for it (it started at 0).
C2_NoLostIncrement ==
  (\A w \in DOMAIN reqs : reqs[w].pc = "done") =>
    \A c \in ChoiceIds :
      choices[c].votes =
        Cardinality({w \in DOMAIN reqs : reqs[w].status = 302 /\ reqs[w].choice = c})

\* C3: a vote on an existing question with no choice field, or with a choice
\* identifier that is no choice of that question, changes nothing in the store and
\* returns the detail view of the question with the error message.
C3_InvalidSelectionRedisplays ==
  [][\A w \in DOMAIN reqs :
       (reqs[w].pc = "idle" /\ reqs'[w].pc # "idle") =>
         LET req == IF reqs'[w].pc = "loaded"
                      THEN [question_id |-> reqs'[w].question_id,
                            post |-> reqs'[w].post]
                      ELSE response'.request
         IN (req.question_id \in QuestionIds /\ ~ValidVote(req)) =>
              /\ reqs'[w].pc = "done"
              /\ UNCHANGED <<now, questions, choices>>
              /\ response'.view = "vote"
              /\ response'.status = 200
              /\ response'.template = "polls/detail.html"
              /\ response'.question = req.question_id
              /\ response'.error_message = "You didn't select a choice."
              /\ response'.location = <<>>]_vars

\* The published questions that have a choice.
Listable == {q \in filter_pub_date_lte(now) : choice_set(q) # {}}

\* C4: the listing is the five most recently published of the questions that are
\* published and have a choice, newest first.
C4_ListingIsNewestFiveListable ==
  response.view = "index" =>
    response.list \in {slice(o, IndexLimit) : o \in order_by_pub_date_desc(Listable)}

\* C5: every listed question is published and has a choice; at most five are
\* listed, none twice, newest first; an empty store lists nothing, normally.
C5_ListingIsSound ==
  response.view = "index" =>
    LET l == response.list IN
    /\ response.status = 200
    /\ Len(l) <= 5
    /\ \A i \in 1..Len(l) :
         /\ l[i] \in QuestionIds
         /\ questions[l[i]].pub_date <= now
         /\ \E c \in ChoiceIds : choices[c].question = l[i]
    /\ \A i, j \in 1..Len(l) : i # j => l[i] # l[j]
    /\ \A i \in 1..(Len(l) - 1) :
         questions[l[i]].pub_date >= questions[l[i + 1]].pub_date
    /\ (questions = <<>> => l = <<>>)

C5_Witness ==
  /\ response.view = "index"
  /\ Len(response.list) = 5
  /\ Cardinality(Listable) = 6

\* C6: detail and results return the question exactly when it exists and its
\* pub_date <= now; otherwise the answer is the one Not Found, the same for a
\* future question as for no question; the two lookups agree.
C6_LookupOnlyPublished ==
  /\ response.view \in {"detail", "results"} =>
       LET pk == response.request.question_id IN
       IF pk \in QuestionIds /\ questions[pk].pub_date <= now
         THEN response.status = 200 /\ response.question = pk
         ELSE response = Http404(response.view, response.request)
  /\ \A pk \in 1..(Len(questions) + 1) :
       (pk \in DetailView_get_queryset) = (pk \in ResultsView_get_queryset)

C6_Witness ==
  /\ response.view = "detail"
  /\ response.status = 404
  /\ response.request.question_id \in QuestionIds

\* C7: was_published_recently is true exactly for a pub_date within the 24 hours
\* before now and not after now: false in the future, false more than 24 hours
\* back, true in between.
C7_RecentWindow ==
  recent.called =>
    /\ recent.pub_date > recent.at => ~recent.value
    /\ recent.pub_date < recent.at - 24 => ~recent.value
    /\ (recent.at - 24 <= recent.pub_date /\ recent.pub_date <= recent.at)
         => recent.value

C7_Witness ==
  /\ recent.called
  /\ recent.value
  /\ recent.pub_date = recent.at - 24
  /\ recent.at > 0

\* C8: under sequential execution every vote counter is a natural number; from
\* one state to the next no choice disappears, no counter goes down, and a counter
\* changes only in a successful vote for that choice, by exactly 1.
C8_VotesOnlyGrowByVote ==
  /\ [](\A c \in ChoiceIds : choices[c].votes \in Nat)
  /\ [][\A c \in ChoiceIds :
          /\ c \in 1..Len(choices')
          /\ choices'[c].votes >= choices[c].votes
          /\ choices'[c].votes # choices[c].votes =>
               /\ response'.view = "vote"
               /\ response'.status = 302
               /\ response'.request.post = {IntLiterals[c]}
               /\ choices'[c].votes = choices[c].votes + 1]_vars

C8_Witness ==
  \E c, d \in ChoiceIds : c # d /\ choices[c].votes = 1 /\ choices[d].votes = 1

\* C9: vote answers Not Found exactly when no question has the identifier, writing
\* nothing; for an existing question what the vote does is decided by the choice
\* field alone, not by pub_date or now: a valid choice is loaded, incremented and
\* saved with a redirect, anything else ends the request without a write.
C9_VoteIgnoresPublication ==
  [][\A w \in DOMAIN reqs :
       /\ (reqs[w].pc = "idle" /\ reqs'[w].pc # "idle") =>
            LET req == IF reqs'[w].pc = "loaded"
                         THEN [question_id |-> reqs'[w].question_id,
                               post |-> reqs'[w].post]
                         ELSE response'.request
            IN /\ UNCHANGED <<questions, choices>>
               /\ (reqs'[w].pc = "done" /\ response'.status = 404)
                    <=> req.question_id \notin QuestionIds
               /\ reqs'[w].pc = "loaded" <=> ValidVote(req)
               /\ reqs'[w].pc = "loaded" =>
                    /\ IntLiterals[reqs'[w].choice] \in req.post
                    /\ reqs'[w].votes = choices[reqs'[w].choice].votes
       /\ (reqs[w].pc = "loaded" /\ reqs'[w].pc = "done") =>
            /\ response'.status = 302
            /\ response'.location = <<"polls:results", reqs[w].question_id>>
            /\ choices'[reqs[w].choice].votes = reqs[w].votes + 1]_vars

C9_Witness ==
  /\ response.view = "vote"
  /\ response.status = 302
  /\ questions[response.request.question_id].pub_date > now
  /\ response.request.question_id \notin DetailView_get_queryset
  /\ response.request.question_id \notin ResultsView_get_queryset
  /\ \E c \in choice_set(response.request.question_id) : choices[c].votes > 0

\* C10: the steps of listing, detail and results leave the store as it was; a
\* vote leaves the questions, the set of choices, their owners and texts as they
\* were; the only write is a vote's, to one choice's counter.
C10_OnlyOneCounterWritten ==
  [][/\ questions' = questions
     /\ Len(choices') = Len(choices)
     /\ \A c \in ChoiceIds :
          /\ choices'[c].question = choices[c].question
          /\ choices'[c].choice_text = choices[c].choice_text
     /\ Cardinality({c \in ChoiceIds : choices'[c] # choices[c]}) <= 1
     /\ choices' # choices =>
          \E w \in DOMAIN reqs : reqs[w].pc = "loaded" /\ reqs'[w].pc = "done"
     /\ (listing' # listing \/ response'.view \in {"index", "detail", "results"}) =>
          UNCHANGED <<questions, choices>>]_vars

C10_Witness ==
  /\ response.view = "index"
  /\ response.list # <<>>
  /\ \E c \in ChoiceIds : choices[c].votes > 0

====
